---- MODULE Spec2Model ----
(***************************************************************************)
(* The benchmark and leaderboard harness of EdgeRAG's front end            *)
(* (frontend/src/App.jsx): the simulated Query Service queryRAG, the chat  *)
(* handler handleSend, the batch runner runPerformanceTest, the comparison *)
(* runner runModelComparison, the statistics aggregator getTestStats and   *)
(* the leaderboard sort, together with the HTTP Query Service of           *)
(* src/utils/api.js.                                                       *)
(*                                                                         *)
(* Spec is the harness, SpecChat the harness with the chat, SpecApi the    *)
(* harness with a Query Service that can fail, SpecStats the aggregator on *)
(* arbitrary records.                                                      *)
(*                                                                         *)
(* JavaScript runs one task at a time: an action below is one task, from   *)
(* the event or timer that starts it to the next await on a timer, with    *)
(* the React render that follows the task's state updates.                 *)
(*                                                                         *)
(* Units: times are milliseconds, costs are multiples of 0.0001 USD.       *)
(* A JavaScript string made by toFixed is the record                       *)
(* [type |-> "string", val |-> n]; where a value may be a number, a string *)
(* or undefined, the number n is [type |-> "number", val |-> n].           *)
(***************************************************************************)
EXTENDS Integers, Sequences, FiniteSets, TLC

\* ---------------------------------------------------------------- bounds
\* testConfig.numQueries: 10 in the source, bounded here
numQueries == 2
\* number of entries of the models list the comparison iterates over
NumModels == 2
\* number of chat questions a behaviour sends
MaxSends == 1
\* longest record sequence handed to the aggregator in SpecStats
MaxStatsLen == 5

\* ------------------------------------------- values of the random draws
\* Math.floor(Math.random() * 50) + 30 ranges over 30..79
RetrievalTimes == {30}
\* Math.floor(Math.random() * 120) + 80 ranges over 80..199
GenerationTimes == {80}
\* how much longer than its two delays a call takes, as seen by Date.now()
Jitters == {0, 1}
\* (Math.random() * 0.05 + 0.01).toFixed(4) ranges over "0.0100".."0.0600"
CostVals == {100}
\* Math.floor(Math.random() * 1000) + 500 ranges over 500..1499
TokenVals == {500}
\* (Math.random() * 30 + 55).toFixed(1) ranges over "55.0".."85.0"
WinRates == {550}
\* wall-clock latencies of the records handed to the aggregator in SpecStats
StatsLatencies == {100, 110, 120, 150, 500}

\* ------------------------------------------------------- JavaScript values
Num(v) == [type |-> "number", val |-> v]

Str(v) == [type |-> "string", val |-> v]

Undefined == [type |-> "undefined", val |-> 0]

\* arr[idx] with a 0-based index: undefined outside the array
At(arr, idx) == IF idx >= 0 /\ idx < Len(arr) THEN Num(arr[idx + 1]) ELSE Undefined

\* (num / den).toFixed(0): the nearest integer, the larger one on a tie
ToFixed0(num, den) == Str((2 * num + den) \div (2 * den))

\* x.toFixed(4) of a value already in units of 0.0001: the decimal string
ToFixed4(x) == Str(x)

\* parseFloat(x): the number a number or a decimal string stands for
parseFloat(x) == x.val

\* Math.floor(totalLatency * 0.3)
CachedLatency(totalLatency) == (totalLatency * 3) \div 10

\* ------------------------------------------------------------- the data
AllQueries == <<"risk factors", "Q4 revenue", "AI strategy", "YoY growth",
                "key investments", "cash flow", "regulatory", "competitive",
                "growth projections", "balance sheet">>

testQueries == SubSeq(AllQueries, 1, IF numQueries < Len(AllQueries) THEN numQueries ELSE Len(AllQueries))

AllModels == << [id |-> "gpt-4-turbo", name |-> "GPT-4 Turbo", cost |-> 100, elo |-> 1245],
                [id |-> "gpt-3.5-turbo", name |-> "GPT-3.5 Turbo", cost |-> 20, elo |-> 1156],
                [id |-> "claude-3-sonnet", name |-> "Claude 3 Sonnet", cost |-> 30, elo |-> 1198],
                [id |-> "claude-3-haiku", name |-> "Claude 3 Haiku", cost |-> 2, elo |-> 1089] >>

models == SubSeq(AllModels, 1, IF NumModels < Len(AllModels) THEN NumModels ELSE Len(AllModels))

useCache == TRUE

initialMetrics == [latency |-> 0, cacheHit |-> FALSE, cost |-> Num(0), tokensUsed |-> 0,
                   retrievalTime |-> 0, generationTime |-> 0]

\* a response that reports the generation time and a cost on a cache hit too
ResponseIgnoringCache(retrievalTime, generationTime, hit, costDraw, tokenDraw) ==
  LET totalLatency == retrievalTime + generationTime
      cacheHit == useCache /\ hit
  IN [latency |-> IF cacheHit THEN CachedLatency(totalLatency) ELSE totalLatency,
      cacheHit |-> cacheHit,
      cost |-> ToFixed4(costDraw),
      tokensUsed |-> IF cacheHit THEN 0 ELSE tokenDraw,
      retrievalTime |-> retrievalTime,
      generationTime |-> generationTime]

\* the response of queryRAG: its metrics record
Response(retrievalTime, generationTime, hit, costDraw, tokenDraw) ==
  LET totalLatency == retrievalTime + generationTime
      cacheHit == useCache /\ hit
  IN [latency |-> IF cacheHit THEN CachedLatency(totalLatency) ELSE totalLatency,
      cacheHit |-> cacheHit,
      cost |-> IF cacheHit THEN Num(0) ELSE ToFixed4(costDraw),
      tokensUsed |-> IF cacheHit THEN 0 ELSE tokenDraw,
      retrievalTime |-> retrievalTime,
      generationTime |-> IF cacheHit THEN 0 ELSE generationTime]

\* the record runPerformanceTest pushes for one query
RunRecord(query, elapsed, m) ==
  [query |-> query, latency |-> elapsed, cacheHit |-> m.cacheHit,
   cost |-> parseFloat(m.cost), tokens |-> m.tokensUsed,
   retrievalTime |-> m.retrievalTime, generationTime |-> m.generationTime,
   success |-> TRUE]

\* the record runModelComparison pushes for one model
ComparisonRecord(model, elapsed, m, winRate) ==
  [model |-> model.name, modelId |-> model.id, latency |-> elapsed,
   cost |-> parseFloat(m.cost), tokens |-> m.tokensUsed, elo |-> model.elo,
   winRate |-> Str(winRate)]

\* --------------------------------------------------- statistics aggregator
\* insert x into an ascending sequence after the elements that are <= x
RECURSIVE Insert(_, _)
Insert(s, x) ==
  IF s = <<>> THEN <<x>>
  ELSE IF x < Head(s) THEN <<x>> \o s
  ELSE <<Head(s)>> \o Insert(Tail(s), x)

\* the latencies left in arrival order
Unsorted(s) == s

RECURSIVE SortAscending(_)
\* latencies.sort((a, b) => a - b)
SortAscending(s) ==
  IF s = <<>> THEN <<>> ELSE Insert(SortAscending(SubSeq(s, 1, Len(s) - 1)), s[Len(s)])

RECURSIVE Reduce(_, _, _)
\* seq.reduce((sum, r) => sum + f(r), init) for the field named by f
Reduce(s, f, init) ==
  IF s = <<>> THEN init ELSE Reduce(Tail(s), f, init + Head(s)[f])

\* Math.ceil(n * p) in place of Math.floor
PercentileIndexCeil(n, pct) == (n * pct + 99) \div 100

\* Math.floor(n * p) for p = pct / 100
PercentileIndex(n, pct) == (n * pct) \div 100

NullStats == [kind |-> "null"]

\* the mean taken over the configured number of queries (testConfig.numQueries)
AverageOverConfigured(latencies) == ToFixed0(Reduce([i \in 1..Len(latencies) |-> [v |-> latencies[i]]], "v", 0), 10)

\* (latencies.reduce((a, b) => a + b, 0) / latencies.length).toFixed(0)
Average(latencies) ==
  ToFixed0(Reduce([i \in 1..Len(latencies) |-> [v |-> latencies[i]]], "v", 0), Len(latencies))

\* the hits per miss, as a percentage
HitsPerMiss(cacheHits, n) == ToFixed0(cacheHits * 100, IF n - cacheHits > 0 THEN n - cacheHits ELSE 1)

\* ((cacheHits / testResults.length) * 100).toFixed(0)
CacheHitRate(cacheHits, n) == ToFixed0(cacheHits * 100, n)

\* the aggregator without its check for an empty list: the mean of no
\* latencies is NaN (val 0 here) and every percentile is undefined
getTestStatsUnguarded(results) ==
  LET latencies == SortAscending([i \in 1..Len(results) |-> results[i].latency])
      costs == Reduce(results, "cost", 0)
      cacheHits == Cardinality({i \in 1..Len(results) : results[i].cacheHit})
      n == Len(latencies)
  IN [kind |-> "stats",
      avgLatency |-> IF n = 0 THEN Str(0) ELSE Average(latencies),
      p50 |-> At(latencies, PercentileIndex(n, 50)),
      p95 |-> At(latencies, PercentileIndex(n, 95)),
      p99 |-> At(latencies, PercentileIndex(n, 99)),
      totalCost |-> ToFixed4(costs),
      cacheHitRate |-> IF n = 0 THEN Str(0) ELSE CacheHitRate(cacheHits, n)]

getTestStats(results) ==
  IF Len(results) = 0 THEN NullStats
  ELSE
    LET latencies == SortAscending([i \in 1..Len(results) |-> results[i].latency])
        costs == Reduce(results, "cost", 0)
        cacheHits == Cardinality({i \in 1..Len(results) : results[i].cacheHit})
        n == Len(latencies)
    IN [kind |-> "stats",
        avgLatency |-> Average(latencies),
        p50 |-> At(latencies, PercentileIndex(n, 50)),
        p95 |-> At(latencies, PercentileIndex(n, 95)),
        p99 |-> At(latencies, PercentileIndex(n, 99)),
        totalCost |-> ToFixed4(costs),
        cacheHitRate |-> CacheHitRate(cacheHits, Len(results))]

\* ------------------------------------------------------------- leaderboard
RECURSIVE InsertByLatencyDescending(_, _)
\* the comparator (a, b) => b.latency - a.latency
InsertByLatencyDescending(s, r) ==
  IF s = <<>> THEN <<r>>
  ELSE IF r.latency > Head(s).latency THEN <<r>> \o s
  ELSE <<Head(s)>> \o InsertByLatencyDescending(Tail(s), r)

RECURSIVE InsertBeforeEqual(_, _)
\* a sort that is not stable: r goes before the records of equal latency
InsertBeforeEqual(s, r) ==
  IF s = <<>> THEN <<r>>
  ELSE IF r.latency <= Head(s).latency THEN <<r>> \o s
  ELSE <<Head(s)>> \o InsertBeforeEqual(Tail(s), r)

RECURSIVE InsertByLatency(_, _)
\* insert record r after the records whose latency is <= r.latency
InsertByLatency(s, r) ==
  IF s = <<>> THEN <<r>>
  ELSE IF r.latency < Head(s).latency THEN <<r>> \o s
  ELSE <<Head(s)>> \o InsertByLatency(Tail(s), r)

RECURSIVE SortByLatency(_)
\* comparisonResults.sort((a, b) => a.latency - b.latency): stable, in place
SortByLatency(s) ==
  IF s = <<>> THEN <<>>
  ELSE InsertByLatency(SortByLatency(SubSeq(s, 1, Len(s) - 1)), s[Len(s)])

\* the rows of the leaderboard: .sort(...).map((result, idx) => ...), the
\* row at idx showing position idx + 1
Leaderboard(results) ==
  LET sorted == SortByLatency(results)
  IN [i \in 1..Len(sorted) |-> [position |-> i, result |-> sorted[i]]]

\* what a render leaves in the comparisonResults array: the leaderboard is
\* rendered, and the array sorted in place, only on the comparison tab
LeaderboardRender(tab, results) ==
  IF tab = "comparison" /\ Len(results) > 0 THEN SortByLatency(results) ELSE results

\* ------------------------------------------------------------------ state
VARIABLES
  activeTab,          \* 'chat' | 'testing' | 'comparison'
  inputValue,         \* text of the chat input
  messages,           \* chat transcript: the type of each message
  isLoading,
  isRunningTest,
  testResults,        \* published RunRecords
  comparisonResults,  \* published ComparisonRecords
  metrics,            \* metrics of the last completed queryRAG call
  stats,              \* getTestStats() of the last render
  calls,              \* queryRAG invocations in flight
  batch,              \* runPerformanceTest: promise state and local results
  cmp                 \* runModelComparison: promise state and local results

vars == <<activeTab, inputValue, messages, isLoading, isRunningTest, testResults,
          comparisonResults, metrics, stats, calls, batch, cmp>>

Tabs == {"chat", "testing", "comparison"}

InputValues == {"", "q"}

Init ==
  /\ activeTab = "chat"
  /\ inputValue = ""
  /\ messages = <<>>
  /\ isLoading = FALSE
  /\ isRunningTest = FALSE
  /\ testResults = <<>>
  /\ comparisonResults = <<>>
  /\ metrics = initialMetrics
  /\ stats = getTestStats(<<>>)
  /\ calls = {}
  /\ batch = [pc |-> "idle", results |-> <<>>]
  /\ cmp = [pc |-> "idle", results |-> <<>>]

\* ---------------------------------------------------------------- helpers
\* queryRAG up to its first await: the calls a task starts, each waiting on
\* its retrieval timer
NewCalls(owner, idxs, retrievalTime) ==
  {[owner |-> owner, idx |-> i, phase |-> "retrieval", retrievalTime |-> retrievalTime,
    generationTime |-> 0] : i \in idxs}

\* a loop that starts every call at once instead of awaiting each
LoopIssuesAll(i, k) == IF i = 0 THEN 1..k ELSE {}

\* the for loop with its await: with i records pushed out of k, the next
\* iteration starts exactly one call, or the loop ends
LoopIssues(i, k) == IF i < k THEN {i + 1} ELSE {}

\* endTime - startTime around a call: the two timer delays and the lateness
Elapsed(c, lateness) == c.retrievalTime + c.generationTime + lateness

\* results.unshift(record) in place of push
Unshift(results, record) == <<record>> \o results

\* results.push(record)
Push(results, record) == Append(results, record)

\* a start that leaves the published records of the run before
KeptResults(old) == old

\* setTestResults([]) and setComparisonResults([]) at the start of a run
ClearedResults(old) == <<>>

CallsOf(owner) == {c \in calls : c.owner = owner}

\* a Run Test button that is never disabled
RunTestNeverDisabled == FALSE

\* disabled={isRunningTest} of the Run Test button
RunTestDisabled == isRunningTest

\* a Run Comparison button that is never disabled
RunComparisonNeverDisabled == FALSE

\* disabled={isRunningTest} of the Run Comparison button
RunComparisonDisabled == isRunningTest

\* disabled={isLoading || !inputValue.trim()} of the Send button
SendDisabled == isLoading \/ inputValue = ""

\* the render after a task: stats is recomputed, the leaderboard is sorted
Render(tab, newTestResults, newComparisonResults) ==
  /\ stats' = getTestStats(newTestResults)
  /\ testResults' = newTestResults
  /\ comparisonResults' = LeaderboardRender(tab, newComparisonResults)

\* ---------------------------------------------------------------- actions
SetActiveTab ==
  \E t \in Tabs \ {activeTab} :
    /\ activeTab' = t
    /\ Render(t, testResults, comparisonResults)
    /\ UNCHANGED <<inputValue, messages, isLoading, isRunningTest, metrics, calls, batch, cmp>>

\* typing into the chat input, or clicking a suggested question
SetInputValue ==
  /\ activeTab = "chat"
  /\ ~isLoading \/ Len(messages) = 0
  /\ \E v \in InputValues \ {inputValue} : inputValue' = v
  /\ Render(activeTab, testResults, comparisonResults)
  /\ UNCHANGED <<activeTab, messages, isLoading, isRunningTest, metrics, calls, batch, cmp>>

Sends == Cardinality({i \in 1..Len(messages) : messages[i] = "user"})

handleSend ==
  /\ activeTab = "chat"
  /\ ~SendDisabled
  /\ Sends < MaxSends
  /\ messages' = Append(messages, "user")
  /\ inputValue' = ""
  /\ isLoading' = TRUE
  /\ \E rt \in RetrievalTimes : calls' = calls \cup NewCalls("chat", {Len(messages) + 1}, rt)
  /\ Render(activeTab, testResults, comparisonResults)
  /\ UNCHANGED <<activeTab, isRunningTest, metrics, batch, cmp>>

runPerformanceTest ==
  /\ activeTab = "testing"
  /\ ~RunTestDisabled
  /\ LET issued == LoopIssues(0, Len(testQueries))
     IN /\ \E rt \in RetrievalTimes : calls' = calls \cup NewCalls("batch", issued, rt)
        /\ isRunningTest' = (issued # {})
        /\ isLoading' = IF issued # {} THEN TRUE ELSE isLoading
        /\ batch' = [pc |-> IF issued # {} THEN "running" ELSE "done", results |-> <<>>]
  /\ Render(activeTab, ClearedResults(testResults), comparisonResults)
  /\ UNCHANGED <<activeTab, inputValue, messages, metrics, cmp>>

runModelComparison ==
  /\ activeTab = "comparison"
  /\ ~RunComparisonDisabled
  /\ LET issued == LoopIssues(0, Len(models))
     IN /\ \E rt \in RetrievalTimes : calls' = calls \cup NewCalls("cmp", issued, rt)
        /\ isRunningTest' = (issued # {})
        /\ isLoading' = IF issued # {} THEN TRUE ELSE isLoading
        /\ cmp' = [pc |-> IF issued # {} THEN "running" ELSE "done", results |-> <<>>]
  /\ Render(activeTab, testResults, ClearedResults(comparisonResults))
  /\ UNCHANGED <<activeTab, inputValue, messages, metrics, batch>>

\* the retrieval timer of a call fires: queryRAG draws generationTime and
\* waits on the generation timer
RetrievalTimer ==
  \E c \in calls, g \in GenerationTimes :
    /\ c.phase = "retrieval"
    /\ calls' = (calls \ {c}) \cup {[c EXCEPT !.phase = "generation", !.generationTime = g]}
    /\ UNCHANGED <<activeTab, inputValue, messages, isLoading, isRunningTest, testResults,
                   comparisonResults, metrics, stats, batch, cmp>>

\* the generation timer of the chat call fires: queryRAG returns to handleSend
ChatInvocationReturns ==
  \E c \in CallsOf("chat"), hit \in BOOLEAN, cost \in CostVals, tok \in TokenVals :
    /\ c.phase = "generation"
    /\ metrics' = Response(c.retrievalTime, c.generationTime, hit, cost, tok)
    /\ isLoading' = FALSE
    /\ messages' = Append(messages, "ai")
    /\ calls' = calls \ {c}
    /\ Render(activeTab, testResults, comparisonResults)
    /\ UNCHANGED <<activeTab, inputValue, isRunningTest, batch, cmp>>

\* the generation timer of a batch call fires: queryRAG returns to the loop
\* of runPerformanceTest, which pushes and publishes the record and goes on
BatchInvocationReturns ==
  \E c \in CallsOf("batch"), j \in Jitters, hit \in BOOLEAN, cost \in CostVals, tok \in TokenVals :
    /\ c.phase = "generation"
    /\ LET m == Response(c.retrievalTime, c.generationTime, hit, cost, tok)
           elapsed == Elapsed(c, j)
           results == Push(batch.results, RunRecord(testQueries[c.idx], elapsed, m))
           issued == LoopIssues(Len(results), Len(testQueries))
           finished == issued = {} /\ CallsOf("batch") = {c}
       IN /\ metrics' = m
          /\ \E rt \in RetrievalTimes : calls' = (calls \ {c}) \cup NewCalls("batch", issued, rt)
          /\ isLoading' = (issued # {})
          /\ isRunningTest' = IF finished THEN FALSE ELSE isRunningTest
          /\ batch' = [pc |-> IF finished THEN "done" ELSE "running", results |-> results]
          /\ Render(activeTab, results, comparisonResults)
    /\ UNCHANGED <<activeTab, inputValue, messages, cmp>>

\* the generation timer of a comparison call fires: queryRAG returns to the
\* loop of runModelComparison
CmpInvocationReturns ==
  \E c \in CallsOf("cmp"), j \in Jitters, hit \in BOOLEAN, cost \in CostVals, tok \in TokenVals,
     w \in WinRates :
    /\ c.phase = "generation"
    /\ LET m == Response(c.retrievalTime, c.generationTime, hit, cost, tok)
           elapsed == Elapsed(c, j)
           results == Push(cmp.results, ComparisonRecord(models[c.idx], elapsed, m, w))
           issued == LoopIssues(Len(results), Len(models))
           finished == issued = {} /\ CallsOf("cmp") = {c}
       IN /\ metrics' = m
          /\ \E rt \in RetrievalTimes : calls' = (calls \ {c}) \cup NewCalls("cmp", issued, rt)
          /\ isLoading' = (issued # {})
          /\ isRunningTest' = IF finished THEN FALSE ELSE isRunningTest
          /\ cmp' = [pc |-> IF finished THEN "done" ELSE "running", results |-> results]
          /\ Render(activeTab, testResults, results)
    /\ UNCHANGED <<activeTab, inputValue, messages, batch>>

\* Spec is the benchmark and leaderboard harness: the tabs, the two runners
\* and the calls they make
Next ==
  \/ SetActiveTab
  \/ runPerformanceTest
  \/ runModelComparison
  \/ RetrievalTimer
  \/ BatchInvocationReturns
  \/ CmpInvocationReturns

Spec == Init /\ [][Next]_vars

\* SpecChat adds the chat: typing, sending and the chat's own calls
NextChat ==
  \/ Next
  \/ SetInputValue
  \/ handleSend
  \/ ChatInvocationReturns

SpecChat == Init /\ [][NextChat]_vars

\* ------------------------------------------- the HTTP Query Service fails
\* SpecApi drives the harness with a Query Service that can fail, as the
\* fetch of src/utils/api.js does: the awaited call rejects, nothing in
\* queryRAG, the loop or the handler catches it, and the handler's promise
\* rejects at the await.
BatchCallFails ==
  \E c \in CallsOf("batch") :
    /\ calls' = calls \ {c}
    /\ batch' = [batch EXCEPT !.pc = "failed"]
    /\ UNCHANGED <<activeTab, inputValue, messages, isLoading, isRunningTest, testResults,
                   comparisonResults, metrics, stats, cmp>>

CmpCallFails ==
  \E c \in CallsOf("cmp") :
    /\ calls' = calls \ {c}
    /\ cmp' = [cmp EXCEPT !.pc = "failed"]
    /\ UNCHANGED <<activeTab, inputValue, messages, isLoading, isRunningTest, testResults,
                   comparisonResults, metrics, stats, batch>>

NextApi ==
  \/ Next
  \/ BatchCallFails
  \/ CmpCallFails

SpecApi == Init /\ [][NextApi]_vars

\* ------------------------------------------- the aggregator on any records
\* SpecStats hands getTestStats every record sequence of up to MaxStatsLen
\* records that runPerformanceTest can build from a response of queryRAG
StatsRecord(i, latency, hit) ==
  RunRecord(AllQueries[i], latency,
            Response(CHOOSE r \in RetrievalTimes : TRUE, CHOOSE g \in GenerationTimes : TRUE,
                     hit, latency, CHOOSE t \in TokenVals : TRUE))

\* the draws of one record: any latency answered by the service, the two
\* shortest also answered from the cache
StatsDraws == (StatsLatencies \X {FALSE}) \cup ({100, 110} \X {TRUE})

\* the record sequence drawn by f, which gives each position its wall-clock
\* latency and whether the call was a cache hit
StatsInput(f) == [i \in DOMAIN f |-> StatsRecord(i, f[i][1], f[i][2])]

Unrendered == [kind |-> "none"]

InitStats ==
  /\ activeTab = "testing"
  /\ inputValue = ""
  /\ messages = <<>>
  /\ isLoading = FALSE
  /\ isRunningTest = FALSE
  /\ \E n \in 0..MaxStatsLen : \E f \in [1..n -> StatsDraws] :
       testResults = StatsInput(f)
  /\ comparisonResults = <<>>
  /\ metrics = initialMetrics
  /\ stats = Unrendered
  /\ calls = {}
  /\ batch = [pc |-> "done", results |-> testResults]
  /\ cmp = [pc |-> "idle", results |-> <<>>]

\* const stats = getTestStats() of a render
StatsRender ==
  /\ stats = Unrendered
  /\ stats' = getTestStats(testResults)
  /\ UNCHANGED <<activeTab, inputValue, messages, isLoading, isRunningTest, testResults,
                 comparisonResults, metrics, calls, batch, cmp>>

NextStats == StatsRender

SpecStats == InitStats /\ [][NextStats]_vars

\* ================================================================ properties
IsPrefix(s, t) == Len(s) <= Len(t) /\ SubSeq(t, 1, Len(s)) = s

\* a call of the owner's run returned in this step
Returned(owner) == \E c \in CallsOf(owner) : c.phase = "generation" /\ c \notin calls'

\* C1: a batch run over k queries ends with exactly k RunRecords even when
\* Query Service calls fail: the run never ends with an error propagated to
\* its caller, and a run that has ended has published k records, a failed
\* call being recorded with success = FALSE.
C1_BatchSurvivesFailures ==
  /\ batch.pc # "failed"
  /\ batch.pc = "done" => Len(testResults) = Len(testQueries)

\* C2: while a batch run is Running a second batch run cannot be started,
\* and the published testResults are neither cleared nor mixed with records
\* of another run: every step leaves them a prefix of their next value and
\* equal to the running run's own record sequence.
C2_SecondBatchRejected ==
  [][batch.pc = "running" =>
       /\ ~ENABLED runPerformanceTest
       /\ IsPrefix(testResults, testResults')
       /\ testResults = batch.results]_vars

C2_Witness ==
  /\ batch.pc = "running"
  /\ activeTab = "testing"
  /\ RunTestDisabled
  /\ Len(testResults) >= 1

\* C3: RunState is Running exactly while a batch or comparison run is in
\* progress: it becomes Running on start and is Idle again once the run has
\* completed or has been aborted by a failing call.
C3_RunStateReturnsToIdle ==
  isRunningTest <=> (batch.pc = "running" \/ cmp.pc = "running")

\* C4: within a batch run or a comparison run at most one Query Service
\* invocation is in flight, and the invocation in flight is number i+1 when
\* exactly i records have been appended.
C4_OneInFlightPerRun ==
  /\ Cardinality(CallsOf("batch")) <= 1
  /\ Cardinality(CallsOf("cmp")) <= 1
  /\ \A c \in CallsOf("batch") : batch.pc = "running" /\ c.idx = Len(testResults) + 1
  /\ \A c \in CallsOf("cmp") : cmp.pc = "running" /\ c.idx = Len(comparisonResults) + 1

C4_Witness ==
  \E c \in CallsOf("batch") : c.idx = 2 /\ Len(testResults) = 1

\* C5: the published testResults are always a prefix of the input queries,
\* record i carrying query i, and each completed invocation of a batch run
\* extends them by exactly one record.
C5_PublishedPrefixGrowsByOne ==
  [][/\ Len(testResults') <= Len(testQueries)
     /\ \A i \in 1..Len(testResults') : testResults'[i].query = testQueries[i]
     /\ Returned("batch") =>
          /\ Len(testResults') = Len(testResults) + 1
          /\ IsPrefix(testResults, testResults')]_vars

C5_Witness ==
  /\ batch.pc = "running"
  /\ Len(testResults) >= 1
  /\ Len(testResults) < Len(testQueries)
  /\ testResults[1].query = testQueries[1]

\* C6: the latency stored in a RunRecord or ComparisonRecord is the latency
\* the Query Service reported in the metrics of that call.
C6_RecordLatencyIsReported ==
  [][/\ Returned("batch") => testResults'[Len(testResults')].latency = metrics'.latency
     /\ Returned("cmp") => cmp'.results[Len(cmp'.results)].latency = metrics'.latency]_vars

\* -------------------------------------------- properties of the aggregator
Latency(i) == testResults[i].latency

\* v is the element at 0-based index k of the latencies in ascending order
IsAtSortedIndex(v, k) ==
  /\ Cardinality({i \in 1..Len(testResults) : Latency(i) < v}) <= k
  /\ k < Cardinality({i \in 1..Len(testResults) : Latency(i) <= v})

\* min(floor(p * n / 100), n - 1)
ClampedIndex(p, n) == IF (p * n) \div 100 < n - 1 THEN (p * n) \div 100 ELSE n - 1

Percentile(p) == IF p = 50 THEN stats.p50 ELSE IF p = 95 THEN stats.p95 ELSE stats.p99

MaxLatency == CHOOSE v \in {Latency(i) : i \in 1..Len(testResults)} :
                \A i \in 1..Len(testResults) : Latency(i) <= v

RECURSIVE CostOfFirst(_)
CostOfFirst(k) == IF k = 0 THEN 0 ELSE CostOfFirst(k - 1) + testResults[k].cost

Computed == stats # Unrendered /\ Len(testResults) > 0

ExampleLatencies == <<100, 150, 120, 500, 110>>

\* C7: for a non-empty record sequence of length n and p in {50, 95, 99} the
\* percentile is the element at index min(floor(p*n/100), n-1) of the
\* ascending latencies, that index lies inside the array, and the latencies
\* [100,150,120,500,110] give p50 = 120, p95 = 500, p99 = 500.
C7_NearestRankPercentile ==
  Computed =>
    /\ \A p \in {50, 95, 99} :
         /\ Percentile(p).type = "number"
         /\ (p * Len(testResults)) \div 100 < Len(testResults)
         /\ IsAtSortedIndex(Percentile(p).val, ClampedIndex(p, Len(testResults)))
    /\ [i \in 1..Len(testResults) |-> Latency(i)] = ExampleLatencies =>
         stats.p50 = Num(120) /\ stats.p95 = Num(500) /\ stats.p99 = Num(500)

C7_Witness ==
  /\ Computed
  /\ [i \in 1..Len(testResults) |-> Latency(i)] = ExampleLatencies
  /\ stats.p50 = Num(120)

\* C8: for a non-empty record sequence p50 <= p95 <= p99 <= max(latencies).
C8_PercentilesMonotone ==
  Computed =>
    /\ stats.p50.type = "number" /\ stats.p95.type = "number" /\ stats.p99.type = "number"
    /\ stats.p50.val <= stats.p95.val
    /\ stats.p95.val <= stats.p99.val
    /\ stats.p99.val <= MaxLatency

C8_Witness ==
  /\ Computed
  /\ Len(testResults) >= 3
  /\ Latency(1) > Latency(2)
  /\ stats.p50.val < stats.p99.val

\* C9: for exactly one record avgLatency, p50, p95 and p99 all have the
\* value of that record's latency.
C9_SingleRecord ==
  (Computed /\ Len(testResults) = 1) =>
    /\ stats.avgLatency = Str(Latency(1))
    /\ stats.p50 = Num(Latency(1))
    /\ stats.p95 = Num(Latency(1))
    /\ stats.p99 = Num(Latency(1))

C9_Witness ==
  /\ Computed
  /\ Len(testResults) = 1
  /\ stats.avgLatency.val = 150

\* C10: for a non-empty record sequence cacheHitRate lies in [0, 100] and
\* totalCost is the sum of the records' costs; when every record is a cache
\* hit, cacheHitRate is 100 and totalCost is 0.
C10_HitRateAndTotalCost ==
  Computed =>
    /\ stats.cacheHitRate.val >= 0 /\ stats.cacheHitRate.val <= 100
    /\ stats.totalCost.val = CostOfFirst(Len(testResults))
    /\ (\A i \in 1..Len(testResults) : testResults[i].cacheHit) =>
         stats.cacheHitRate.val = 100 /\ stats.totalCost.val = 0

C10_Witness ==
  /\ Computed
  /\ Len(testResults) >= 2
  /\ \A i \in 1..Len(testResults) : testResults[i].cacheHit
  /\ stats.cacheHitRate.val = 100

\* -------------------------------------------- properties of the leaderboard
\* the place of a model in the models list
ModelIndex(id) == CHOOSE i \in 1..Len(models) : models[i].id = id

\* the leaderboard a render shows for the published comparisonResults
Rows == Leaderboard(comparisonResults)

\* C11: a comparison run over m models produces exactly m ComparisonRecords,
\* record i carrying the id, display name and baseline rating of model i;
\* the ranking has each position 1..m exactly once, every record exactly
\* once, and latencies that do not decrease with the position.
C11_ComparisonRecordsAndRanking ==
  cmp.pc = "done" =>
    /\ Len(cmp.results) = Len(models)
    /\ \A i \in 1..Len(cmp.results) :
         /\ cmp.results[i].modelId = models[i].id
         /\ cmp.results[i].model = models[i].name
         /\ cmp.results[i].elo = models[i].elo
    /\ Len(Rows) = Len(models)
    /\ \A k \in 1..Len(models) : Cardinality({i \in 1..Len(Rows) : Rows[i].position = k}) = 1
    /\ \E p \in Permutations(1..Len(models)) :
         \A i \in 1..Len(Rows) : Rows[i].result = cmp.results[p[i]]
    /\ \A i, j \in 1..Len(Rows) :
         Rows[i].position < Rows[j].position => Rows[i].result.latency <= Rows[j].result.latency

C11_Witness ==
  /\ cmp.pc = "done"
  /\ activeTab = "comparison"
  /\ cmp.results[1].latency > cmp.results[2].latency
  /\ Rows[1].result.modelId = models[2].id

\* C12: the ranking is stable: two ComparisonRecords of equal latency appear
\* in it in the order of the models list, at every point during and after
\* the run, however often the ranking has been computed.
C12_RankingStable ==
  \A i, j \in 1..Len(Rows) :
    (i < j /\ Rows[i].result.latency = Rows[j].result.latency) =>
      ModelIndex(Rows[i].result.modelId) < ModelIndex(Rows[j].result.modelId)

C12_Witness ==
  /\ cmp.pc = "done"
  /\ batch.pc = "done"
  /\ activeTab = "comparison"
  /\ Len(Rows) >= 2
  /\ Rows[1].result.latency = Rows[2].result.latency
  /\ Rows[1].result.modelId = models[1].id

\* C13: computing the leaderboard leaves the published comparisonResults
\* unchanged: they are in the order of the models list at every point
\* during and after a comparison run.
C13_PublishedInModelOrder ==
  \A i \in 1..Len(comparisonResults) : comparisonResults[i].modelId = models[i].id

\* C14: over zero records the aggregator returns null and the ranking is
\* empty; statistics exist only over at least one record and then hold
\* numbers, also right after a run has started and cleared its records.
C14_NoStatsFromNoRecords ==
  /\ Len(testResults) = 0 => stats.kind = "null"
  /\ stats.kind # "null" =>
       /\ Len(testResults) > 0
       /\ stats.p50.type = "number" /\ stats.p95.type = "number" /\ stats.p99.type = "number"
       /\ stats.avgLatency.val > 0
  /\ Len(comparisonResults) = 0 => Rows = <<>>

C14_Witness ==
  /\ batch.pc = "running"
  /\ cmp.pc = "idle"
  /\ Len(testResults) = 0
  /\ stats.kind = "null"
  /\ metrics.latency > 0

\* C15: every metrics record of the Query Service has
\* latency = retrievalTime + generationTime when it is not a cache hit, and
\* generationTime = 0 and cost = 0 when it is.
C15_MetricsInvariant ==
  /\ ~metrics.cacheHit => metrics.latency = metrics.retrievalTime + metrics.generationTime
  /\ metrics.cacheHit => metrics.generationTime = 0 /\ parseFloat(metrics.cost) = 0

C15_Witness ==
  /\ metrics.cacheHit
  /\ metrics.retrievalTime > 0
  /\ metrics.latency < metrics.retrievalTime + 80

\* the step starts a run of the owner: its first call is issued
Starts(owner) == \E c \in calls' \ calls : c.owner = owner /\ c.idx = 1

\* C16: the start of a run empties its published list; from then on the
\* published list holds exactly the records of the current run, none of an
\* earlier one, and is never longer than the run's queries or models.
C16_PublishedListReplaced ==
  [][/\ Starts("batch") => testResults' = <<>>
     /\ Starts("cmp") => comparisonResults' = <<>>
     /\ testResults' = batch'.results
     /\ Len(comparisonResults') = Len(cmp'.results)
     /\ \A i \in 1..Len(comparisonResults') :
          \E k \in 1..Len(cmp'.results) : comparisonResults'[i] = cmp'.results[k]
     /\ Len(testResults') <= Len(testQueries)
     /\ Len(comparisonResults') <= Len(models)]_vars

C16_Witness ==
  /\ cmp.pc = "running"
  /\ batch.pc = "idle"
  /\ comparisonResults = <<>>
  /\ metrics.latency > 0

\* C17: a batch run and a comparison run are never in progress together;
\* while either runs both start controls are disabled and neither run can
\* be started; isRunningTest is true exactly while a run is in progress.
C17_SharedRunningFlag ==
  /\ ~(batch.pc = "running" /\ cmp.pc = "running")
  /\ isRunningTest <=> (batch.pc = "running" \/ cmp.pc = "running")
  /\ isRunningTest =>
       /\ RunTestDisabled /\ RunComparisonDisabled
       /\ ~ENABLED runPerformanceTest /\ ~ENABLED runModelComparison

C17_Witness ==
  /\ batch.pc = "running"
  /\ cmp.pc = "done"
  /\ activeTab = "comparison"
  /\ RunComparisonDisabled

\* C18: isLoading is true whenever a queryRAG invocation is in flight, and a
\* chat invocation is never in flight together with another invocation.
C18_LoadingWhileInFlight ==
  /\ calls # {} => isLoading
  /\ \A c \in CallsOf("chat") : calls = {c}

====
